---- MODULE Spec2Model ----
(***************************************************************************)
(* A model of src/bot.py: the access gate (authorized_only), the sliding   *)
(* window rate limiter (rate_limit), the command handlers, the menu        *)
(* selection handler (button_callback) and the error handler, as they are  *)
(* registered in main().                                                   *)
(*                                                                         *)
(* One action models the dispatch of one inbound update to completion:     *)
(* the application is built without concurrent updates, so updates are     *)
(* processed one after the other.  Every outbound call (reply_text,        *)
(* edit_message_text, answer) is a call into the transport, which either   *)
(* delivers or raises; the outcome is an input of the action.              *)
(*                                                                         *)
(* Spec dispatches updates of every kind at one clock reading; SpecRate    *)
(* dispatches the entry command, the only rate-limited one, while the      *)
(* clock advances over the sampled readings.  SpecStartup runs main() from *)
(* the environment to run_polling.  SpecCatalog draws every value of       *)
(* random.choice.  SpecTasks runs start coroutines concurrently on one     *)
(* event loop, statement by statement.                                     *)
(***************************************************************************)
EXTENDS Integers, Sequences, FiniteSets, TLC

VARIABLES
    AUTHORIZED_USERS,   \* the set loaded in main() (line 56, 358)
    calls,              \* rate_limit's dict: identity -> list of timestamps (line 84)
    now,                \* the wall clock read by datetime.now() (line 90)
    running,            \* the polling loop of run_polling is alive (line 387)
    last,               \* what the dispatch of the latest update did
    boot,               \* main(): its position, the environment it reads, the Flask thread
    loop                \* the event loop: the start coroutines in flight and the one that runs

vars == <<AUTHORIZED_USERS, calls, now, running, last, boot, loop>>

---------------------------------------------------------------------------
(* Bounds of the model *)

\* The clock is sampled up to this reading.
MaxTime == 60

\* The identities that send updates.
Identities == {1, 2}

\* The authorized sets the bot is started with: open access, or identity 1 only.
AuthorizedSets == {{}, {1}}

\* The AUTHORIZED_USERS variable of the environment holds at most this many
\* comma-separated entries.
MaxEntries == 3

\* The start coroutines that can be in flight at once.
NumTasks == 3

---------------------------------------------------------------------------
(* Program constants *)

\* @rate_limit(max_calls=10, period=60) on start
max_calls == 10

period == 60

\* The sampled clock readings: the multiples of the period and the second
\* before each, where the window test of the limiter changes its answer.
Instants == {t \in 0..MaxTime : t % period = 0 \/ t % period = period - 1}

FOREX_PAIRS ==
    [Major  |-> <<"EUR/USD", "GBP/USD", "USD/JPY", "USD/CHF",
                  "AUD/USD", "USD/CAD", "NZD/USD">>,
     Minor  |-> <<"EUR/GBP", "EUR/AUD", "EUR/CAD", "EUR/JPY",
                  "GBP/JPY", "GBP/AUD", "AUD/JPY", "AUD/NZD">>,
     Exotic |-> <<"USD/TRY", "USD/ZAR", "USD/MXN", "USD/SGD",
                  "EUR/TRY", "GBP/ZAR", "USD/THB", "USD/HKD">>]

\* dict insertion order of FOREX_PAIRS (FOREX_PAIRS.items(), .values())
Categories == <<"Major", "Minor", "Exotic">>

\* The commands registered in main().
Commands == {"start", "pairs", "major", "minor", "exotic", "random", "stats", "help"}

\* The callback data the keyboards carry, and one value no keyboard carries.
Tokens == {"major", "minor", "exotic", "all", "random", "back_to_menu", "bogus"}

\* The outcome of one outbound call: delivered, or the transport raised.
Outcomes == {"ok", "fail"}

---------------------------------------------------------------------------
(* Messages *)

RECURSIVE SumLen(_)
\* sum(len(pairs) for pairs in FOREX_PAIRS.values()), over a sequence of category names
SumLen(cats) ==
    IF cats = <<>> THEN 0
    ELSE Len(FOREX_PAIRS[Head(cats)]) + SumLen(Tail(cats))

RECURSIVE Flatten(_)
\* [pair for pairs in FOREX_PAIRS.values() for pair in pairs]
Flatten(cats) ==
    IF cats = <<>> THEN <<>>
    ELSE FOREX_PAIRS[Head(cats)] \o Flatten(Tail(cats))

all_pairs == Flatten(Categories)

\* A message: its title line (the words an f-string joins, as a sequence),
\* the listed sections (name, symbols), the count lines (as a sequence of
\* numbers) and the keyboard (the callback data of its buttons, in order).
Msg(title, sections, counts, keyboard) ==
    [title |-> title, sections |-> sections, counts |-> counts, keyboard |-> keyboard]

Section(name, symbols) == [name |-> name, symbols |-> symbols]

MainKeyboard == <<"major", "minor", "exotic", "random", "all">>

BackKeyboard == <<"back_to_menu">>

DeniedMsg == Msg(<<"Access Denied">>, <<>>, <<>>, <<>>)

RateLimitMsg == Msg(<<"Rate limit exceeded">>, <<>>, <<>>, <<>>)

WelcomeMsg == Msg(<<"Welcome to Forex Pairs Bot">>, <<>>, <<>>, MainKeyboard)

ErrorMsg == Msg(<<"An error occurred">>, <<>>, <<>>, <<>>)

NotFoundMsg == Msg(<<"Category not found.">>, <<>>, <<>>, <<>>)

HelpMsg == Msg(<<"Forex Pairs Bot - Help Guide">>, <<>>, <<>>, <<>>)

\* A message is derived from the catalog when it lists symbols or counts them.
CatalogDerived(m) == m.sections # <<>> \/ m.counts # <<>>

\* One outbound message: how it was sent, what it says, and what the
\* transport did with it ("ok": delivered; otherwise it raised).
Reply(m, r) == [via |-> "reply", msg |-> m, result |-> r]

EditMessage(m, r) == [via |-> "edit", msg |-> m, result |-> r]

Delivered(x) == x.result = "ok"

\* The exception an outbound call raises: none when it is delivered.
Raised(r) == IF r = "ok" THEN "none" ELSE r

---------------------------------------------------------------------------
(* What a handler did: the guards that stopped it, whether its body ran,   *)
(* the acknowledgements and messages it issued, the exception it raised    *)
(* and the rate limiter's dict after it.                                   *)

Did(denied, limited, ran, acks, sent, fault, cs) ==
    [denied |-> denied, limited |-> limited, ran |-> ran, acks |-> acks,
     sent |-> sent, fault |-> fault, calls |-> cs]

---------------------------------------------------------------------------
(* The access gate and the rate limiter *)

\* calls[user_id] = value, creating the entry when it is missing
Put(cs, u, value) ==
    [v \in (DOMAIN cs) \cup {u} |-> IF v = u THEN value ELSE cs[v]]

\* A gate that takes the empty set for "nobody is authorized".
UnauthorizedStrict(auth, u) == u \notin auth

\* line 69: AUTHORIZED_USERS and user_id not in AUTHORIZED_USERS
Unauthorized(auth, u) == auth # {} /\ u \notin auth

\* A gate that sends the denial and then calls func all the same.
authorized_only_falls_through(auth, u, cs, r, inner) ==
    IF Unauthorized(auth, u)
    THEN [inner EXCEPT !.denied = TRUE,
                       !.sent = <<Reply(DeniedMsg, r)>> \o inner.sent]
    ELSE inner

\* authorized_only(func): `inner` is what func does when it is called.
authorized_only(auth, u, cs, r, inner) ==
    IF Unauthorized(auth, u)
    THEN Did(TRUE, FALSE, FALSE, 0, <<Reply(DeniedMsg, r)>>, Raised(r), cs)
    ELSE inner

\* A window that still counts a call that is exactly `p` old.
PruneInclusive(seq, t, p) == SelectSeq(seq, LAMBDA call_time : t - call_time <= p)

\* A fixed-bucket limiter: once the oldest call is stale the whole list is dropped.
PruneBulk(seq, t, p) ==
    IF seq # <<>> /\ t - seq[1] >= p THEN <<>> ELSE seq

\* lines 96-99: the calls of the identity that are still inside the window
Prune(seq, t, p) == SelectSeq(seq, LAMBDA call_time : t - call_time < p)

\* lines 92-99: the identity's list, created when missing, then pruned
Pruned(cs, u, t, p) == Prune(IF u \in DOMAIN cs THEN cs[u] ELSE <<>>, t, p)

\* A limiter that admits one call beyond max_calls.
rate_limit_off_by_one(mc, p, cs, u, t, r, inner) ==
    IF Len(Pruned(cs, u, t, p)) > mc
    THEN Did(FALSE, TRUE, FALSE, 0, <<Reply(RateLimitMsg, r)>>, Raised(r),
             Put(cs, u, Pruned(cs, u, t, p)))
    ELSE [inner EXCEPT !.calls = Put(cs, u, Append(Pruned(cs, u, t, p), t))]

\* A limiter whose rejection restarts the lockout at the time of the call.
rate_limit_penalty(mc, p, cs, u, t, r, inner) ==
    IF Len(Pruned(cs, u, t, p)) >= mc
    THEN Did(FALSE, TRUE, FALSE, 0, <<Reply(RateLimitMsg, r)>>, Raised(r),
             Put(cs, u, [i \in 1..mc |-> t]))
    ELSE [inner EXCEPT !.calls = Put(cs, u, Append(Pruned(cs, u, t, p), t))]

\* A limiter that keeps one list for every identity.
rate_limit_shared(mc, p, cs, u, t, r, inner) ==
    IF Len(Pruned(cs, 1, t, p)) >= mc
    THEN Did(FALSE, TRUE, FALSE, 0, <<Reply(RateLimitMsg, r)>>, Raised(r),
             Put(cs, 1, Pruned(cs, 1, t, p)))
    ELSE [inner EXCEPT !.calls = Put(cs, 1, Append(Pruned(cs, 1, t, p), t))]

\* A limiter that records the call before it checks the count.
rate_limit_append_first(mc, p, cs, u, t, r, inner) ==
    IF Len(Pruned(cs, u, t, p)) >= mc
    THEN Did(FALSE, TRUE, FALSE, 0, <<Reply(RateLimitMsg, r)>>, Raised(r),
             Put(cs, u, Append(Pruned(cs, u, t, p), t)))
    ELSE [inner EXCEPT !.calls = Put(cs, u, Append(Pruned(cs, u, t, p), t))]

\* rate_limit(max_calls, period)(func): `inner` is what func does when it
\* is called; t is the clock reading of line 90.
rate_limit(mc, p, cs, u, t, r, inner) ==
    IF Len(Pruned(cs, u, t, p)) >= mc
    THEN Did(FALSE, TRUE, FALSE, 0, <<Reply(RateLimitMsg, r)>>, Raised(r),
             Put(cs, u, Pruned(cs, u, t, p)))
    ELSE [inner EXCEPT !.calls = Put(cs, u, Append(Pruned(cs, u, t, p), t))]

---------------------------------------------------------------------------
(* The command handlers *)

\* The body of start: the welcome message with the main menu.
start_body(cs, r) ==
    Did(FALSE, FALSE, TRUE, 0, <<Reply(WelcomeMsg, r)>>, Raised(r), cs)

\* The decorators in the other order: the limiter runs before the gate.
start_rate_first(auth, cs, u, t, r) ==
    rate_limit(max_calls, period, cs, u, t, r,
               authorized_only(auth, u, cs, r, start_body(cs, r)))

\* @authorized_only @rate_limit(max_calls=10, period=60) async def start
start(auth, cs, u, t, r) ==
    authorized_only(auth, u, cs, r,
                    rate_limit(max_calls, period, cs, u, t, r, start_body(cs, r)))

\* The sections of every category in dict order, each named by the
\* category and `suffix`.
RECURSIVE Sections(_, _)
Sections(cats, suffix) ==
    IF cats = <<>> THEN <<>>
    ELSE <<Section(<<Head(cats), suffix>>, FOREX_PAIRS[Head(cats)])>>
         \o Sections(Tail(cats), suffix)

pairs(cs, r) ==
    Did(FALSE, FALSE, TRUE, 0,
        <<Reply(Msg(<<"Forex Pairs by Category">>, Sections(Categories, "Pairs:"),
                    <<SumLen(Categories)>>, <<>>), r)>>,
        Raised(r), cs)

\* str.capitalize() on the category names the handlers and keyboards use
Capitalize(category) ==
    CASE category \in {"major", "Major", "MAJOR"} -> "Major"
      [] category \in {"minor", "Minor", "MINOR"} -> "Minor"
      [] category \in {"exotic", "Exotic", "EXOTIC"} -> "Exotic"
      [] category = "all" -> "All"
      [] OTHER -> category

\* FOREX_PAIRS.get(key, [])
Get(key) == IF key \in DOMAIN FOREX_PAIRS THEN FOREX_PAIRS[key] ELSE <<>>

get_category_pairs(cs, category, r) ==
    IF Get(Capitalize(category)) = <<>>
    THEN Did(FALSE, FALSE, TRUE, 0, <<Reply(NotFoundMsg, r)>>, Raised(r), cs)
    ELSE Did(FALSE, FALSE, TRUE, 0,
             <<Reply(Msg(<<Capitalize(category), "Currency Pairs:">>,
                         <<Section(<<>>, Get(Capitalize(category)))>>,
                         <<Len(Get(Capitalize(category)))>>,
                         BackKeyboard), r)>>,
             Raised(r), cs)

major(cs, r) == get_category_pairs(cs, "Major", r)

minor(cs, r) == get_category_pairs(cs, "Minor", r)

exotic(cs, r) == get_category_pairs(cs, "Exotic", r)

\* A lookup that reports the first category whatever the pair is.
FirstCategory(cats, selected_pair) == Head(cats)

\* next(cat for cat, pairs in FOREX_PAIRS.items() if selected_pair in pairs)
RECURSIVE FirstOwner(_, _)
FirstOwner(cats, selected_pair) ==
    IF cats = <<>> THEN "StopIteration"
    ELSE IF \E i \in 1..Len(FOREX_PAIRS[Head(cats)]) :
                FOREX_PAIRS[Head(cats)][i] = selected_pair
         THEN Head(cats)
         ELSE FirstOwner(Tail(cats), selected_pair)

\* random_pair: `pick` is the index random.choice draws in all_pairs.
random_pair(cs, pick, r) ==
    Did(FALSE, FALSE, TRUE, 0,
        <<Reply(Msg(<<"Random Pair Selection">>,
                    <<Section(<<FirstOwner(Categories, all_pairs[pick])>>,
                              <<all_pairs[pick]>>)>>,
                    <<>>, <<"random">>), r)>>,
        Raised(r), cs)

\* The counts of stats, one per category and the total (the server time
\* line is not part of the model).
RECURSIVE Counts(_)
Counts(cats) ==
    IF cats = <<>> THEN <<>>
    ELSE <<Len(FOREX_PAIRS[Head(cats)])>> \o Counts(Tail(cats))

stats(cs, r) ==
    Did(FALSE, FALSE, TRUE, 0,
        <<Reply(Msg(<<"Bot Statistics">>, <<>>,
                    Counts(Categories) \o <<SumLen(Categories)>>, <<>>), r)>>,
        Raised(r), cs)

help_command(cs, r) ==
    Did(FALSE, FALSE, TRUE, 0, <<Reply(HelpMsg, r)>>, Raised(r), cs)

---------------------------------------------------------------------------
(* The menu-selection handler *)

\* lines 281-316: the message of a callback; `pick` is the index
\* random.choice draws in all_pairs.
ButtonMsg(data, pick) ==
    CASE data \in {"major", "minor", "exotic"} ->
            Msg(<<Capitalize(data), "Currency Pairs:">>,
                <<Section(<<>>, FOREX_PAIRS[Capitalize(data)])>>, <<>>, BackKeyboard)
      [] data = "all" ->
            Msg(<<"All Forex Pairs">>, Sections(Categories, ":"), <<>>, BackKeyboard)
      [] data = "random" ->
            Msg(<<"Random Pair">>,
                <<Section(<<FirstOwner(Categories, all_pairs[pick])>>,
                          <<all_pairs[pick]>>)>>,
                <<>>, BackKeyboard)
      [] data = "back_to_menu" ->
            Msg(<<"Select a category:">>, <<>>, <<>>, MainKeyboard)
      [] OTHER ->
            Msg(<<"Unknown option">>, <<>>, <<>>, BackKeyboard)

\* A handler that looks the token up in the catalog: an unknown token
\* raises KeyError after the acknowledgement.
button_callback_lookup(cs, data, pick, ra, re) ==
    IF ra # "ok"
    THEN Did(FALSE, FALSE, TRUE, 1, <<>>, ra, cs)
    ELSE IF data \notin {"major", "minor", "exotic", "all", "random", "back_to_menu"}
    THEN Did(FALSE, FALSE, TRUE, 1, <<>>, "KeyError", cs)
    ELSE Did(FALSE, FALSE, TRUE, 1, <<EditMessage(ButtonMsg(data, pick), re)>>,
             Raised(re), cs)

\* A handler that acknowledges after it has edited the message.
button_callback_answer_last(cs, data, pick, ra, re) ==
    IF re # "ok"
    THEN Did(FALSE, FALSE, TRUE, 0, <<EditMessage(ButtonMsg(data, pick), re)>>,
             re, cs)
    ELSE Did(FALSE, FALSE, TRUE, 1, <<EditMessage(ButtonMsg(data, pick), re)>>,
             Raised(ra), cs)

\* button_callback: ra is the outcome of query.answer(), re the outcome of
\* query.edit_message_text().  When answer raises, nothing is edited.
button_callback(cs, data, pick, ra, re) ==
    IF ra # "ok"
    THEN Did(FALSE, FALSE, TRUE, 1, <<>>, ra, cs)
    ELSE Did(FALSE, FALSE, TRUE, 1, <<EditMessage(ButtonMsg(data, pick), re)>>,
             Raised(re), cs)

---------------------------------------------------------------------------
(* The error handler and the dispatch of one update *)

\* An error handler that replies without looking for a message.
error_handler_always_replies(has_message, rx) ==
    [logged |-> TRUE, errors |-> <<Reply(ErrorMsg, rx)>>]

\* error_handler: logs, and replies when the update has a message;
\* rx is the outcome of that reply.
error_handler(has_message, rx) ==
    [logged |-> TRUE,
     errors |-> IF has_message THEN <<Reply(ErrorMsg, rx)>> ELSE <<>>]

NoError == [logged |-> FALSE, errors |-> <<>>]

\* An update processed by the application: the handler runs, and an
\* exception it raises goes to the registered error handler (line 381).
Processed(kind, name, u, did, rx) ==
    [kind |-> kind, name |-> name, user |-> u, has_message |-> TRUE,
     seen |-> 0, denied |-> did.denied, limited |-> did.limited, ran |-> did.ran,
     acks |-> did.acks, sent |-> did.sent, fault |-> did.fault,
     handled |-> IF did.fault # "none" THEN error_handler(TRUE, rx) ELSE NoError]

\* No update was processed yet.
Nothing ==
    [kind |-> "none", name |-> "none", user |-> 0, has_message |-> FALSE,
     seen |-> 0, denied |-> FALSE, limited |-> FALSE, ran |-> FALSE,
     acks |-> 0, sent |-> <<>>, fault |-> "none", handled |-> NoError]

\* The message shown in the chat after the latest update, when it was a
\* delivered edit: the transport reports an edit to the same content of the
\* same message as unchanged ("Message is not modified").
Shown(l, u) ==
    IF l.kind = "button" /\ l.user = u /\ l.sent # <<>> /\ Delivered(l.sent[1])
    THEN {l.sent[1].msg}
    ELSE {}

\* The outcomes of an edit: pressing the button of the message just
\* rendered with the same content again is reported as unchanged.
EditOutcomes(l, u, m) ==
    Outcomes \cup (IF m \in Shown(l, u) THEN {"not_modified"} ELSE {})

---------------------------------------------------------------------------
(* Actions *)

\* main() has run to run_polling, with the environment that gives `auth`.
Booted(auth) ==
    [pc |-> "polling", token |-> "123:abc",
     auth_users |-> IF auth = {} THEN <<>> ELSE <<"1">>, flask |-> TRUE]

\* No start coroutine is in flight.
Tasks == 1..NumTasks
Idle == [pc |-> "idle", user |-> 0, current_time |-> 0, result |-> "none"]
NoTasks == [current |-> 0, tasks |-> [k \in Tasks |-> Idle]]

Init ==
    /\ AUTHORIZED_USERS \in AuthorizedSets
    /\ calls = [u \in {} |-> <<>>]
    /\ now = 0
    /\ running = TRUE
    /\ last = Nothing
    /\ boot = Booted(AUTHORIZED_USERS)
    /\ loop = NoTasks

\* The wall clock advances to a later sampled reading.
Tick ==
    /\ \E t \in Instants : t > now /\ now' = t
    /\ UNCHANGED <<AUTHORIZED_USERS, calls, running, last, boot, loop>>

\* The outcomes of the error handler's reply: it is only sent after a fault.
ErrorOutcomes(did) == IF did.fault # "none" THEN Outcomes ELSE {"ok"}

\* The sampled draws of random.choice: the first and the last index of all_pairs.
Picks(name) == IF name = "random" THEN {1, Len(all_pairs)} ELSE {1}

\* CommandHandler("start", start)
\* The number of calls the limiter found stored for the identity (the list
\* of lines 92-93, before line 96 prunes it); the gate's denial never looks.
Seen(cs, u, did) ==
    IF did.denied \/ u \notin DOMAIN cs THEN 0 ELSE Len(cs[u])

StartEv ==
    /\ running
    /\ \E u \in Identities, r \in Outcomes :
         LET did == start(AUTHORIZED_USERS, calls, u, now, r) IN
           \E rx \in ErrorOutcomes(did) :
             /\ calls' = did.calls
             /\ last' = [Processed("command", "start", u, did, rx)
                            EXCEPT !.seen = Seen(calls, u, did)]
    /\ UNCHANGED <<AUTHORIZED_USERS, now, running, boot, loop>>

\* What the handler registered for a command other than start does.
Handler(name, cs, pick, r) ==
    CASE name = "pairs" -> pairs(cs, r)
      [] name = "major" -> major(cs, r)
      [] name = "minor" -> minor(cs, r)
      [] name = "exotic" -> exotic(cs, r)
      [] name = "random" -> random_pair(cs, pick, r)
      [] name = "stats" -> stats(cs, r)
      [] name = "help" -> help_command(cs, r)

\* CommandHandler(name, ...) for pairs, major, minor, exotic, random, stats, help
CommandEv ==
    /\ running
    /\ \E u \in Identities, name \in Commands \ {"start"}, r \in Outcomes :
         \E pick \in Picks(name) :
           LET did == Handler(name, calls, pick, r) IN
             \E rx \in ErrorOutcomes(did) :
               /\ calls' = did.calls
               /\ last' = Processed("command", name, u, did, rx)
    /\ UNCHANGED <<AUTHORIZED_USERS, now, running, boot, loop>>

\* CallbackQueryHandler(button_callback)
ButtonEv ==
    /\ running
    /\ \E u \in Identities, data \in Tokens, ra \in Outcomes :
         \E pick \in Picks(data) :
           \E re \in IF ra = "ok" THEN EditOutcomes(last, u, ButtonMsg(data, pick))
                     ELSE {"ok"} :
             LET did == button_callback(calls, data, pick, ra, re) IN
               \E rx \in ErrorOutcomes(did) :
                 /\ calls' = did.calls
                 /\ last' = Processed("button", data, u, did, rx)
    /\ UNCHANGED <<AUTHORIZED_USERS, now, running, boot, loop>>

\* An error outside any update (a failed poll): the error handler is called
\* with update = None.
PollErrorEv ==
    /\ running
    /\ last' = [Nothing EXCEPT !.kind = "poll", !.fault = "fail",
                               !.handled = error_handler(FALSE, "ok")]
    /\ UNCHANGED <<AUTHORIZED_USERS, calls, now, running, boot, loop>>

\* Updates of every kind, dispatched within one clock reading.
Next == StartEv \/ CommandEv \/ ButtonEv \/ PollErrorEv

Spec == Init /\ [][Next]_vars

\* The entry command alone, as the clock advances.
NextRate == Tick \/ StartEv

SpecRate == Init /\ [][NextRate]_vars

---------------------------------------------------------------------------
(* Startup: main() *)

\* The values of TELEGRAM_BOT_TOKEN: unset (None), set to the empty string, set.
TokenValues == {"none", "", "123:abc"}

\* The entries auth_users.split(',') yields: integers, with or without
\* blanks around them, an empty entry, a blank entry, a word.
EntryTexts == {"1", " 2", "", " ", "abc"}

\* user_id.strip() is truthy (line 358)
StripTruthy(e) == e \notin {"", " "}

\* int(user_id) returns (it raises ValueError otherwise); int() ignores
\* the blanks around the digits.
IsInt(e) == e \in {"1", " 2"}

\* int(user_id)
IntOf(e) == CASE e = "1" -> 1 [] e = " 2" -> 2

\* The values of AUTHORIZED_USERS in the environment: up to MaxEntries
\* entries; the empty sequence is the variable unset or empty.
EnvUsers == UNION {[1..n -> EntryTexts] : n \in 0..MaxEntries}

\* The index of the first entry on which int() raises, 0 when there is none.
FirstBad(entries) ==
    IF \E i \in DOMAIN entries : StripTruthy(entries[i]) /\ ~IsInt(entries[i])
    THEN CHOOSE i \in DOMAIN entries :
           /\ StripTruthy(entries[i]) /\ ~IsInt(entries[i])
           /\ \A j \in 1..(i - 1) : ~(StripTruthy(entries[j]) /\ ~IsInt(entries[j]))
    ELSE 0

\* The integers the generator of line 358 yields from the first n entries.
Yielded(entries, n) ==
    {IntOf(entries[i]) : i \in {j \in 1..n : StripTruthy(entries[j]) /\ IsInt(entries[j])}}

InitStartup ==
    /\ AUTHORIZED_USERS = {}
    /\ calls = [u \in {} |-> <<>>]
    /\ now = 0
    /\ running = FALSE
    /\ last = Nothing
    /\ \E token \in TokenValues, entries \in EnvUsers :
         boot = [pc |-> "main", token |-> token, auth_users |-> entries,
                 flask |-> FALSE]
    /\ loop = NoTasks

\* A main() that starts the health-check thread before it looks at the token.
LoadTokenFlaskFirst ==
    /\ boot.pc = "main"
    /\ boot' = [boot EXCEPT !.flask = TRUE,
                            !.pc = IF boot.token \in {"none", ""} THEN "exited"
                                   ELSE "users"]
    /\ UNCHANGED <<AUTHORIZED_USERS, calls, now, running, last, loop>>

\* lines 346-353: without a token main() logs and returns.
LoadToken ==
    /\ boot.pc = "main"
    /\ boot' = [boot EXCEPT !.pc = IF boot.token \in {"none", ""} THEN "exited"
                                   ELSE "users"]
    /\ UNCHANGED <<AUTHORIZED_USERS, calls, now, running, last, loop>>

\* lines 356-359: set.update adds what the generator yields; a ValueError
\* of int() leaves main(), and the process, with what was added before it.
LoadUsers ==
    /\ boot.pc = "users"
    /\ IF boot.auth_users = <<>>
       THEN /\ boot' = [boot EXCEPT !.pc = "flask"]
            /\ UNCHANGED AUTHORIZED_USERS
       ELSE IF FirstBad(boot.auth_users) = 0
       THEN /\ boot' = [boot EXCEPT !.pc = "flask"]
            /\ AUTHORIZED_USERS' =
                 Yielded(boot.auth_users, Len(boot.auth_users))
       ELSE /\ boot' = [boot EXCEPT !.pc = "crashed"]
            /\ AUTHORIZED_USERS' =
                 Yielded(boot.auth_users, FirstBad(boot.auth_users) - 1)
    /\ UNCHANGED <<calls, now, running, last, loop>>

\* lines 362-364: the daemon thread that serves the health checks
StartFlask ==
    /\ boot.pc = "flask"
    /\ boot' = [boot EXCEPT !.flask = TRUE, !.pc = "build"]
    /\ UNCHANGED <<AUTHORIZED_USERS, calls, now, running, last, loop>>

\* lines 367-392: the application is built, the handlers are added and
\* run_polling starts the loop.
RunPolling ==
    /\ boot.pc = "build"
    /\ boot' = [boot EXCEPT !.pc = "polling"]
    /\ running' = TRUE
    /\ UNCHANGED <<AUTHORIZED_USERS, calls, now, last, loop>>

NextStartup == LoadToken \/ LoadUsers \/ StartFlask \/ RunPolling

SpecStartup == InitStartup /\ [][NextStartup]_vars

---------------------------------------------------------------------------
(* The random pick, over every draw of random.choice *)

\* CommandHandler("random", random_pair), for every index random.choice can draw
RandomCommandEv ==
    /\ running
    /\ \E u \in Identities, pick \in 1..Len(all_pairs), r \in Outcomes :
         LET did == random_pair(calls, pick, r) IN
           \E rx \in ErrorOutcomes(did) :
             /\ calls' = did.calls
             /\ last' = Processed("command", "random", u, did, rx)
    /\ UNCHANGED <<AUTHORIZED_USERS, now, running, boot, loop>>

\* CallbackQueryHandler(button_callback) with query.data = 'random', for
\* every index random.choice can draw
RandomButtonEv ==
    /\ running
    /\ \E u \in Identities, pick \in 1..Len(all_pairs), ra \in Outcomes :
         \E re \in IF ra = "ok" THEN EditOutcomes(last, u, ButtonMsg("random", pick))
                   ELSE {"ok"} :
           LET did == button_callback(calls, "random", pick, ra, re) IN
             \E rx \in ErrorOutcomes(did) :
               /\ calls' = did.calls
               /\ last' = Processed("button", "random", u, did, rx)
    /\ UNCHANGED <<AUTHORIZED_USERS, now, running, boot, loop>>

NextCatalog == RandomCommandEv \/ RandomButtonEv

SpecCatalog == Init /\ [][NextCatalog]_vars

---------------------------------------------------------------------------
(* Concurrent start coroutines on one event loop *)

\* A coroutine's positions: "idle" (not started, or finished), "prune"
\* (line 88, the limiter's wrapper entered), "check" (line 101), "append"
\* (line 107), "reply" (suspended in one of the awaited reply_text calls of
\* lines 70, 102 and 149).

\* A scheduler that can switch coroutines between any two statements.
SuspendedAnywhere(pc) == TRUE

\* asyncio switches coroutines only where one awaits I/O: the reply_text
\* calls (lines 70, 102, 149), and when a coroutine has returned.
Suspended(pc) == pc \in {"idle", "reply"}

\* Coroutine k may take a step: it holds the loop, or the loop is free.
MayRun(k) == loop.current \in {0, k}

\* Coroutine k moves to record `rec`; it keeps the loop unless it suspends.
Step(k, rec) ==
    loop' = [current |-> IF Suspended(rec.pc) THEN 0 ELSE k,
             tasks |-> [loop.tasks EXCEPT ![k] = rec]]

\* lines 61-80: a start update of identity u is dispatched as coroutine k;
\* the gate sends the denial, or calls the limiter's wrapper.
TaskGate ==
    /\ running
    /\ \E k \in Tasks, u \in Identities :
         /\ MayRun(k) /\ loop.tasks[k].pc = "idle"
         /\ IF Unauthorized(AUTHORIZED_USERS, u)
            THEN Step(k, [pc |-> "reply", user |-> u, current_time |-> 0,
                          result |-> "denied"])
            ELSE Step(k, [pc |-> "prune", user |-> u, current_time |-> 0,
                          result |-> "none"])
    /\ UNCHANGED <<AUTHORIZED_USERS, calls, now, running, last, boot>>

\* lines 89-99: read the clock, create the identity's list, prune it.
TaskPrune ==
    /\ \E k \in Tasks :
         /\ MayRun(k) /\ loop.tasks[k].pc = "prune"
         /\ calls' = Put(calls, loop.tasks[k].user,
                         Pruned(calls, loop.tasks[k].user, now, period))
         /\ Step(k, [loop.tasks[k] EXCEPT !.pc = "check", !.current_time = now])
    /\ UNCHANGED <<AUTHORIZED_USERS, now, running, last, boot>>

\* lines 101-105: a full list sends the rate-limit response.
TaskCheck ==
    /\ \E k \in Tasks :
         /\ MayRun(k) /\ loop.tasks[k].pc = "check"
         /\ IF Len(calls[loop.tasks[k].user]) >= max_calls
            THEN Step(k, [loop.tasks[k] EXCEPT !.pc = "reply", !.result = "limited"])
            ELSE Step(k, [loop.tasks[k] EXCEPT !.pc = "append"])
    /\ UNCHANGED <<AUTHORIZED_USERS, calls, now, running, last, boot>>

\* lines 107-108, 149: record the call, then start sends the welcome.
TaskAppend ==
    /\ \E k \in Tasks :
         /\ MayRun(k) /\ loop.tasks[k].pc = "append"
         /\ calls' = Put(calls, loop.tasks[k].user,
                         Append(calls[loop.tasks[k].user],
                                loop.tasks[k].current_time))
         /\ Step(k, [loop.tasks[k] EXCEPT !.pc = "reply", !.result = "accepted"])
    /\ UNCHANGED <<AUTHORIZED_USERS, now, running, last, boot>>

\* The awaited reply_text completes and the coroutine returns.
TaskReplied ==
    /\ \E k \in Tasks :
         /\ MayRun(k) /\ loop.tasks[k].pc = "reply"
         /\ Step(k, Idle)
    /\ UNCHANGED <<AUTHORIZED_USERS, calls, now, running, last, boot>>

NextTasks == Tick \/ TaskGate \/ TaskPrune \/ TaskCheck \/ TaskAppend \/ TaskReplied

\* The bot runs with identity 1 authorized: identity 2 is denied by the gate.
InitTasks == Init /\ AUTHORIZED_USERS = {1}

SpecTasks == InitTasks /\ [][NextTasks]_vars

---------------------------------------------------------------------------
(* Properties *)

\* The list of an identity in the limiter's dict, empty when it has no entry.
CallsOf(cs, u) == IF u \in DOMAIN cs THEN cs[u] ELSE <<>>

\* The calls of a list that are less than `p` old at time t.
InWindow(seq, t, p) == SelectSeq(seq, LAMBDA c : t - c < p)

\* A step that dispatches the entry command, and was not stopped by the gate.
StartStep ==
    /\ now' = now
    /\ last'.kind = "command" /\ last'.name = "start" /\ ~last'.denied

\* C1: with max_calls=10 and period=60, a start call of an authorized
\* identity is accepted (the handler runs) when fewer than 10 of its
\* recorded calls are less than 60 seconds old, and is rejected with the
\* rate-limit response when 10 are; the calls that are 60 seconds old or
\* older leave the window one by one, the others stay.
C1_SlidingWindow ==
    [][StartStep =>
         LET u == last'.user
             live == InWindow(CallsOf(calls, u), now, 60)
         IN  /\ Len(live) < 10 =>
                  /\ last'.ran /\ ~last'.limited
                  /\ last'.sent[1].msg = WelcomeMsg
                  /\ calls'[u] = Append(live, now)
             /\ Len(live) >= 10 =>
                  /\ last'.limited /\ ~last'.ran
                  /\ last'.sent[1].msg = RateLimitMsg
                  /\ calls'[u] = live]_vars

\* C1 witness: the window has slid: at time 60 a call was accepted while
\* calls made at 59 are still counted, the calls made at 0 having left, and
\* the window is full again.
C1_Witness ==
    /\ now = 60
    /\ last.kind = "command" /\ last.name = "start" /\ last.ran
    /\ Len(CallsOf(calls, last.user)) = 10
    /\ calls[last.user][1] = 59
    /\ calls[last.user][10] = 60

\* C3: a start event the access gate denies leaves the limiter's dict as
\* it was: no entry is created, nothing is pruned, nothing is appended.
C3_DenialLeavesLimiter ==
    [][(last'.kind = "command" /\ last'.name = "start" /\ last'.denied)
         => calls' = calls]_vars

\* C3 witness: identity 2 was denied at time 60 and has no entry, while
\* identity 1 holds stale calls that a limiter run would have left alone too.
C3_Witness ==
    /\ last.kind = "command" /\ last.name = "start" /\ last.denied
    /\ last.user = 2 /\ 2 \notin DOMAIN calls
    /\ now = 60
    /\ 1 \in DOMAIN calls /\ Len(calls[1]) = 10 /\ calls[1][1] = 0

\* C4: in the limiter a timestamp is appended if and only if the call is
\* accepted; after a rejected call the list is the list before the call
\* without its stale entries, and the handler did not run.
C4_AppendIffAccepted ==
    [][StartStep =>
         LET u == last'.user
             before == CallsOf(calls, u)
             kept == InWindow(before, now, period)
         IN  /\ u \in DOMAIN calls'
             /\ last'.limited <=> ~last'.ran
             /\ last'.ran => calls'[u] = Append(kept, now)
             /\ last'.limited => calls'[u] = kept
             /\ \A v \in DOMAIN calls : v # u => calls'[v] = calls[v]]_vars

\* C4 witness: a call was rejected at time 59 and the list kept its 10 calls.
C4_Witness ==
    /\ last.kind = "command" /\ last.name = "start" /\ last.limited
    /\ now = 59
    /\ Len(calls[last.user]) = 10

\* Every message the dispatch of an update sent: the handler's, then the
\* error handler's.
AllSent(l) == l.sent \o l.handled.errors

DeliveredCount(l) == Len(SelectSeq(AllSent(l), Delivered))

\* The latest update was a command or a menu selection.
InboundEvent == last.kind \in {"command", "button"}

\* C2: with a non-empty authorized set, every command of an identity
\* outside the set gets the access-denied response, and its handler body
\* does not run nor send anything derived from the catalog.
C2_EveryCommandGated ==
    (last.kind = "command" /\ Unauthorized(AUTHORIZED_USERS, last.user))
      => /\ last.denied /\ ~last.ran
         /\ last.sent[1].msg = DeniedMsg
         /\ \A i \in DOMAIN last.sent : ~CatalogDerived(last.sent[i].msg)

\* C5: every menu-selection event issues exactly one acknowledgement,
\* whether the edit that follows is delivered or raises, for every token.
C5_OneAcknowledgement ==
    last.kind = "button" => last.acks = 1

\* C5 witness: the selection of an unknown token was acknowledged once and
\* the edit that followed raised.
C5_Witness ==
    /\ last.kind = "button" /\ last.name = "bogus"
    /\ last.sent # <<>> /\ last.sent[1].result = "fail"
    /\ last.acks = 1

\* C6 as stated: every inbound event results in exactly one response,
\* never zero and never more than one.
C6_ExactlyOneResponse ==
    InboundEvent => (Len(AllSent(last)) = 1 /\ DeliveredCount(last) = 1)

\* C6 as amended: an inbound event none of whose outbound calls raises sends
\* exactly one response, on the denied, rate-limited, handled and
\* unknown-token paths; when an outbound call raises, nothing of the handler
\* is delivered and the error handler sends one generic reply, so that at
\* most one response is delivered.
C6_OneResponseUnlessFault ==
    InboundEvent =>
      /\ DeliveredCount(last) <= 1
      /\ last.fault = "none" =>
           (Len(AllSent(last)) = 1 /\ DeliveredCount(last) = 1)
      /\ last.fault # "none" =>
           /\ \A i \in DOMAIN last.sent : ~Delivered(last.sent[i])
           /\ Len(last.handled.errors) = 1

\* C6 witness: a rate-limited start got its one response, delivered.
C6_Witness ==
    /\ last.limited /\ last.fault = "none"
    /\ Len(AllSent(last)) = 1 /\ DeliveredCount(last) = 1

\* C7: when the transport reports the edited content as unchanged (the
\* same token selected twice in succession), no fault is raised: nothing
\* reaches the error handler and no error message is sent.
C7_UnchangedSwallowed ==
    (last.kind = "button" /\ last.sent # <<>>
       /\ last.sent[1].result = "not_modified")
      => /\ last.fault = "none"
         /\ last.handled = NoError

\* C8: with a non-empty authorized set, a menu selection of an identity
\* outside the set never renders a menu or pair list derived from the catalog.
C8_ButtonsGated ==
    (last.kind = "button" /\ Unauthorized(AUTHORIZED_USERS, last.user))
      => \A i \in DOMAIN last.sent : ~CatalogDerived(last.sent[i].msg)

\* C9: with an empty authorized set no event of any identity is denied.
C9_EmptySetOpen ==
    AUTHORIZED_USERS = {}
      => /\ ~last.denied
         /\ \A i \in DOMAIN AllSent(last) : AllSent(last)[i].msg # DeniedMsg

\* C9 witness: with the empty set, the start of identity 2 ran.
C9_Witness ==
    /\ AUTHORIZED_USERS = {}
    /\ last.kind = "command" /\ last.name = "start" /\ last.user = 2
    /\ last.ran

\* C10: an exception raised while an update is handled reaches the error
\* handler: it is logged, the generic error reply is sent if and only if
\* the update has a message to reply to, and the polling loop stays alive.
C10_ErrorsHandled ==
    /\ running
    /\ last.fault # "none" =>
         /\ last.handled.logged
         /\ last.has_message =>
              (Len(last.handled.errors) = 1 /\ last.handled.errors[1].msg = ErrorMsg)
         /\ ~last.has_message => last.handled.errors = <<>>
    /\ last.fault = "none" => last.handled = NoError

\* C10 witness: the edit of a menu selection raised, the error was logged
\* and the generic reply was sent.
C10_Witness ==
    /\ last.kind = "button" /\ last.fault = "fail"
    /\ last.sent # <<>>
    /\ last.handled.logged
    /\ Len(last.handled.errors) = 1 /\ Delivered(last.handled.errors[1])

\* The integers among the entries of the environment's list.
ParsedInts(entries) ==
    {IntOf(entries[i]) : i \in {j \in DOMAIN entries : IsInt(entries[j])}}

\* C11: at startup the entries of the authorized-identity list that do not
\* parse are skipped and startup continues: with a token, main() gets to
\* run_polling with exactly the entries that parsed in the authorized set.
C11_MalformedSkipped ==
    (boot.token = "123:abc" /\ boot.pc \notin {"main", "users", "flask", "build"})
      => /\ boot.pc = "polling" /\ running
         /\ AUTHORIZED_USERS = ParsedInts(boot.auth_users)

\* C12: without the access token no listener is ever started: neither the
\* health-check thread nor the polling loop.
C12_NoListenerWithoutToken ==
    boot.token \in {"none", ""}
      => /\ ~boot.flask /\ ~running
         /\ boot.pc \in {"main", "exited"}

\* C12 witness: main() has returned for want of a token.
C12_Witness ==
    /\ boot.token = "none" /\ boot.pc = "exited"
    /\ ~boot.flask /\ ~running

\* The symbols a message lists, section by section.
Symbols(m) == [i \in DOMAIN m.sections |-> m.sections[i].symbols]

\* The command whose handler is the equivalent of a menu-selection token.
CommandOf(token) == IF token = "all" THEN "pairs" ELSE token

\* The message the equivalent command handler sends for a token.
CommandMsg(token, pick) == Handler(CommandOf(token), calls, pick, "ok").sent[1].msg

\* C13: for the tokens major, minor, exotic, all and random the message the
\* menu-selection handler renders is the one of the equivalent command
\* handler: the same symbols in catalog order and the same count line.
C13_ButtonMatchesCommand ==
    (/\ last.kind = "button"
     /\ last.name \in {"major", "minor", "exotic", "all", "random"}
     /\ last.sent # <<>>)
      => \E pick \in 1..Len(all_pairs) :
           /\ Symbols(last.sent[1].msg) = Symbols(CommandMsg(last.name, pick))
           /\ last.sent[1].msg.counts = CommandMsg(last.name, pick).counts

\* The categories whose symbol list holds a symbol.
Owners(symbol) ==
    {c \in DOMAIN FOREX_PAIRS :
       \E i \in DOMAIN FOREX_PAIRS[c] : FOREX_PAIRS[c][i] = symbol}

\* The latest update was a random pick that sent its message.
RandomPicked == last.name = "random" /\ last.ran /\ last.sent # <<>>

\* C14: the random pick, by command or by menu selection and for every
\* draw, reports a symbol that is in the symbol list of exactly one
\* category, and the category it reports is that one.
C14_RandomPickOwned ==
    RandomPicked =>
      LET section == last.sent[1].msg.sections[1] IN
        /\ Len(last.sent[1].msg.sections) = 1
        /\ Len(section.symbols) = 1
        /\ Cardinality(Owners(section.symbols[1])) = 1
        /\ Owners(section.symbols[1]) = {section.name[1]}

\* C14 witness: a menu selection picked the last pair of the catalog,
\* USD/HKD, and reported it as Exotic.
C14_Witness ==
    /\ RandomPicked /\ last.kind = "button"
    /\ last.sent[1].msg.sections[1].symbols = <<"USD/HKD">>
    /\ last.sent[1].msg.sections[1].name = <<"Exotic">>

\* C15: a menu selection whose token is none of major, minor, exotic, all,
\* random, back_to_menu raises no fault of its own: once acknowledged it
\* edits the message to "Unknown option" with the back-to-menu button, and
\* when that edit is delivered the error handler is not called.  (The only
\* exceptions on this path are those the transport raises.)
C15_UnknownTokenHandled ==
    (/\ last.kind = "button"
     /\ last.name \notin {"major", "minor", "exotic", "all", "random", "back_to_menu"})
      => /\ last.ran /\ last.acks = 1
         /\ last.fault \in {"none", "fail", "not_modified"}
         /\ last.sent = <<>> => last.fault # "none"
         /\ last.sent # <<>> =>
              /\ Len(last.sent) = 1
              /\ last.sent[1].via = "edit"
              /\ last.sent[1].msg.title = <<"Unknown option">>
              /\ last.sent[1].msg.keyboard = <<"back_to_menu">>
              /\ last.fault = Raised(last.sent[1].result)
              /\ Delivered(last.sent[1]) => last.handled = NoError

\* C15 witness: the token "bogus" was answered with "Unknown option" and
\* the error handler was not called.
C15_Witness ==
    /\ last.kind = "button" /\ last.name = "bogus"
    /\ last.sent # <<>> /\ Delivered(last.sent[1])
    /\ last.sent[1].msg.title = <<"Unknown option">>
    /\ last.fault = "none" /\ last.handled = NoError

\* The coroutines of identity u that are in flight with result r.
InFlight(u, r) ==
    {k \in Tasks : loop.tasks[k].user = u /\ loop.tasks[k].result = r}

\* C16: when several start coroutines are in flight and interleave only
\* where one awaits a send, the limiter's prune, check and append of one
\* coroutine run with no other coroutine's step in between: a coroutine that
\* is inside that sequence holds the loop, a coroutine about to append still
\* sees the free slot it checked, and no identity's list ever holds more
\* than max_calls calls less than `period` old.
C16_NoInterleavedLimiter ==
    /\ \A u \in DOMAIN calls :
         Len(InWindow(calls[u], now, period)) <= max_calls
    /\ \A k \in Tasks :
         /\ loop.tasks[k].pc \in {"prune", "check", "append"}
              => loop.current = k
         /\ loop.tasks[k].pc = "append"
              => Len(calls[loop.tasks[k].user]) < max_calls

\* Two coroutines of one identity are suspended in their sends at once: one
\* took the last free slot, the other was rejected.
C16_Witness ==
    \E u \in Identities :
        /\ InFlight(u, "accepted") # {} /\ InFlight(u, "limited") # {}
        /\ \A k \in InFlight(u, "accepted") \cup InFlight(u, "limited") :
             loop.tasks[k].pc = "reply"
        /\ Len(calls[u]) = max_calls

\* The list is in the order the calls were made.
Sorted(seq) == \A i \in 1..(Len(seq) - 1) : seq[i] <= seq[i + 1]

\* The list of the identity whose start call the step dispatches.
Before == CallsOf(calls, last'.user)

\* C17: in every reachable state each identity's list holds at most
\* max_calls timestamps in non-decreasing order, and right after a start
\* call at time `now` the caller's list holds only timestamps less than
\* `period` old.
C17_BoundedSortedFresh ==
    /\ [](\A u \in DOMAIN calls :
            Len(calls[u]) <= max_calls /\ Sorted(calls[u]))
    /\ [][StartStep =>
            \A i \in 1..Len(calls'[last'.user]) :
                now - calls'[last'.user][i] < period]_vars

\* C17 witness: after an accepted call at 59 the caller's list is full and
\* holds calls of two different instants, oldest first.
C17_Witness ==
    /\ last.kind = "command" /\ last.name = "start" /\ last.ran
    /\ now = 59
    /\ Len(CallsOf(calls, last.user)) = max_calls
    /\ calls[last.user][1] = 0 /\ calls[last.user][max_calls] = 59

\* C18: a call exactly `period` old is pruned: with max_calls calls stored,
\* all made at the same instant t0, a start call at t0 + period (or later)
\* is accepted and a call before t0 + period is rejected.
C18_ClosedBoundary ==
    [][(StartStep /\ Len(Before) = max_calls
                  /\ \A i \in 1..Len(Before) : Before[i] = Before[1]) =>
         /\ now >= Before[1] + period =>
              /\ last'.ran /\ ~last'.limited
              /\ calls'[last'.user] = <<now>>
         /\ now < Before[1] + period =>
              /\ last'.limited /\ ~last'.ran
              /\ calls'[last'.user] = Before]_vars

\* C18 witness: the limiter found ten calls stored, all made at 0 (a call
\* made at 59 would still be in the list), and accepted the call at 60.
C18_Witness ==
    /\ now = period
    /\ last.kind = "command" /\ last.name = "start" /\ last.ran
    /\ last.seen = max_calls
    /\ calls[last.user] = <<period>>

\* C19: a rejected start call leaves the caller's list as it was, so it
\* does not move the end of the lockout; and with a full list the call made
\* at or after (earliest stored timestamp + period) is accepted.
C19_RejectionsDoNotProlong ==
    [][StartStep =>
         /\ last'.limited => calls'[last'.user] = Before
         /\ (Len(Before) = max_calls /\ now >= Before[1] + period)
              => last'.ran /\ ~last'.limited]_vars

\* C19 witness: the list was full with calls made at 0 and at 59, and the
\* call at 60 = 0 + period was accepted although the calls at 59 are fresh.
C19_Witness ==
    /\ now = period
    /\ last.kind = "command" /\ last.name = "start" /\ last.ran
    /\ last.seen = max_calls
    /\ Len(calls[last.user]) >= 2
    /\ calls[last.user][1] = 59

\* C20: a start call of one identity leaves every other identity's list as
\* it was (no entry is created, pruned or extended for it), and whether the
\* call is accepted is decided by the caller's own list and the clock alone.
C20_PerIdentity ==
    [][(now' = now /\ last'.kind = "command" /\ last'.name = "start") =>
         /\ \A v \in Identities \ {last'.user} :
              /\ v \in DOMAIN calls' <=> v \in DOMAIN calls
              /\ CallsOf(calls', v) = CallsOf(calls, v)
         /\ ~last'.denied =>
              (last'.limited <=>
                 Len(InWindow(Before, now, period)) >= max_calls)]_vars

\* C20 witness: identity 1 is locked out, its list full of fresh calls, and
\* the first call of identity 2 was accepted.
C20_Witness ==
    /\ last.kind = "command" /\ last.name = "start" /\ last.ran
    /\ last.user = 2 /\ calls[2] = <<now>>
    /\ 1 \in DOMAIN calls /\ Len(calls[1]) = max_calls
    /\ now - calls[1][1] < period

====
